---- MODULE Spec2Model ----
(***************************************************************************)
(* Model of the accounts app of drf-auth: signup with deferred activation, *)
(* signed-token email confirmation, resend-verification, login and token   *)
(* refresh.  A view is a sequence of steps, one per database statement or  *)
(* mail dispatch (the ORM runs in autocommit, the views take no lock and   *)
(* open no transaction), so the steps of the requests in flight            *)
(* interleave.  The requests in flight form a bag: two requests with the   *)
(* same input at the same statement are two copies of one element.         *)
(***************************************************************************)
EXTENDS Integers, Sequences, FiniteSets, Bags, TLC

\* ---------------------------------------------------------------- bounds
NumWorkers == 2
MaxRequests == 4
MaxUsers == 2
MaxTime == 2

\* ------------------------------------------------------------- constants
TOKEN_EXPIRY == 1
REFRESH_TOKEN_LIFETIME == 2
ACCESS_TOKEN_LIFETIME == 1

\* ---------------------------------------------------------------- inputs
\* An email is the sequence of its pieces: local part, "@", domain.
Emails == { <<"a", "@", "x.com">>, <<"a", "@", "X.com">>, <<"b", "@", "x.com">> }
BadEmails == { <<"a">> }
NoEmail == << >>
\* accounts are created with a password of Passwords; a login also tries
\* the passwords of WrongPasswords
Passwords == { "p1" }
WrongPasswords == { "p2" }
Blank == ""
DispatchFailures == { "sign", "render", "send" }

\* the bodies of the signup and login requests: the well-formed ones and one
\* that fails the field validation
SignUpBodies == (Emails \X Passwords) \cup (BadEmails \X {Blank})
LoginBodies == (Emails \X (Passwords \cup WrongPasswords)) \cup (BadEmails \X {Blank})

VARIABLES users, nextId, now, outbox, issued, inflight, resp, nreq,
          signedUp, verified

vars == <<users, nextId, now, outbox, issued, inflight, resp, nreq,
          signedUp, verified>>

\* ------------------------------------------------------- models.py: User
NoUser == [id |-> 0]
UNUSABLE == <<"!">>

\* AbstractBaseUser.set_password / check_password
make_password(raw) == IF raw = Blank THEN UNUSABLE ELSE <<"pbkdf2", raw>>
check_password(user, raw) == user.password = <<"pbkdf2", raw>>

Lower(piece) == IF piece = "X.com" THEN "x.com" ELSE piece

\* BaseUserManager.normalize_email: lowercases the domain part only
normalize_email(email) ==
    IF \E i \in 1..Len(email) : email[i] = "@"
    THEN LET at == CHOOSE i \in 1..Len(email) :
                       /\ email[i] = "@"
                       /\ \A j \in (i+1)..Len(email) : email[j] # "@"
         IN [i \in 1..Len(email) |-> IF i > at THEN Lower(email[i]) ELSE email[i]]
    ELSE email

\* the row of an in-memory User object
Row(o) == [email |-> o.email, password |-> o.password, is_active |-> o.is_active]
Load(id) == [id |-> id, email |-> users[id].email,
             password |-> users[id].password, is_active |-> users[id].is_active]

\* User.objects.filter(email=email) / get(email=email): exact match
ByEmail(email) == { i \in DOMAIN users : users[i].email = email }

\* email = models.EmailField(unique=True)
UniqueViolation(o) == \E i \in DOMAIN users : i # o.id /\ users[i].email = o.email

\* Model.save(): UPDATE the row by pk, INSERT it when no row was updated
Saved(o) == [i \in DOMAIN users \cup {o.id} |-> IF i = o.id THEN Row(o) ELSE users[i]]

\* a delete that removes no row
DeletedNothing(o) == users

\* Model.delete(): DELETE by pk
Deleted(o) == [i \in DOMAIN users \ {o.id} |-> users[i]]

\* ------------------------------------------- django.core.signing, simplejwt
Mac(key, payload) == <<key, payload>>
Garbage == [value |-> 0, ts |-> 0, sig |-> <<"none">>]

\* TimestampSigner.sign(user.pk)
sign(value) == [value |-> value, ts |-> now, sig |-> Mac("signer", <<value, now>>)]

\* an unsign that never looks at the age of the token
unsign_without_max_age(token, max_age) ==
    IF token.sig # Mac("signer", <<token.value, token.ts>>) THEN "BadSignature"
    ELSE "ok"

\* TimestampSigner.unsign(token, max_age): signature first, then age
unsign(token, max_age) ==
    IF token.sig # Mac("signer", <<token.value, token.ts>>) THEN "BadSignature"
    ELSE IF now - token.ts > max_age THEN "SignatureExpired"
    ELSE "ok"

NoToken == [typ |-> "none"]
Jwt(typ, uid, exp) == [typ |-> typ, uid |-> uid, exp |-> exp,
                       sig |-> Mac("jwt", <<typ, uid, exp>>)]

\* LoginSerializer.get_tokens
get_tokens(user) ==
    [refresh |-> Jwt("refresh", user.id, now + REFRESH_TOKEN_LIFETIME),
     access  |-> Jwt("access", user.id, now + ACCESS_TOKEN_LIFETIME)]

\* RefreshToken(token): signature, expiry and token type are verified
RefreshTokenValid(t) ==
    /\ t.typ = "refresh"
    /\ t.sig = Mac("jwt", <<t.typ, t.uid, t.exp>>)
    /\ now < t.exp

\* ----------------------------------------------------------------- urls.py
urlpatterns ==
    [ path \in {"signup", "login", "confirm-email", "resend_verification_mail",
                "protected"} |->
        CASE path = "signup" -> "signup"
          [] path = "login" -> "login"
          [] path = "confirm-email" -> "confirm_email"
          [] path = "resend_verification_mail" -> "resend_verification_mail"
          [] path = "protected" -> "protected_view" ]

Resolve(path) == IF path \in DOMAIN urlpatterns THEN urlpatterns[path] ELSE "Resolver404"

\* --------------------------------------------------------------- responses
NoTokens == [access |-> NoToken, refresh |-> NoToken]
NoRequest == [op |-> "none", email |-> NoEmail, password |-> Blank, token |-> Garbage]
Request(op, email, password, token) ==
    [op |-> op, email |-> email, password |-> password, token |-> token]

\* rest_framework Response, with the request it answers
Response(request, status, message, errors, tokens) ==
    [request |-> request, status |-> status, message |-> message, errors |-> errors,
     access |-> tokens.access, refresh |-> tokens.refresh]

\* resp holds the response sent by the last step, NoResponse when it sent none
NoResponse == Response(NoRequest, 0, "", {}, NoTokens)

\* utils.custom_exception_handler: the framework answers API exceptions and
\* Http404; everything else becomes 404 "Not Found"
custom_exception_handler(exc) ==
    IF exc = "Http404" THEN [status |-> 404, message |-> "Not found."]
    ELSE [status |-> 404, message |-> "Not Found"]

Raised(request, exc) ==
    LET r == custom_exception_handler(exc)
    IN Response(request, r.status, r.message, {}, NoTokens)

\* -------------------------------------------------------------------- Init
Init ==
    /\ users = << >>
    /\ nextId = 1
    /\ now = 0
    /\ outbox = {}
    /\ issued = {}
    /\ inflight = EmptyBag
    /\ resp = NoResponse
    /\ nreq = 0
    /\ signedUp = {}
    /\ verified = {}

\* a request in flight: the statement it is at, its input, its User object
Task(pc, request, user) == [pc |-> pc, request |-> request, user |-> user]
At(pc) == {t \in BagToSet(inflight) : t.pc = pc}

\* the last response has been sent
Ready == resp = NoResponse

\* a worker is free and takes the next request
Accept ==
    /\ Ready
    /\ BagCardinality(inflight) < NumWorkers
    /\ nreq < MaxRequests
    /\ nreq' = nreq + 1

\* the accepted request is answered by its first step
Reply(r) == inflight' = inflight /\ resp' = r

\* the accepted request goes on as task t
Begin(t) == inflight' = inflight (+) SetToBag({t}) /\ resp' = NoResponse

\* task t goes on to its next statement as task t2
Continue(t, t2) ==
    /\ inflight' = (inflight (-) SetToBag({t})) (+) SetToBag({t2})
    /\ resp' = NoResponse

\* task t answers and ends
Finish(t, r) == inflight' = inflight (-) SetToBag({t}) /\ resp' = r

\* the response leaves the server
Send ==
    /\ ~Ready
    /\ resp' = NoResponse
    /\ UNCHANGED <<users, nextId, now, outbox, issued, inflight, nreq, signedUp, verified>>

\* ------------------------------------------------------------ views.signup
\* EmailValidator: a user part, one "@", a domain name
IsEmail(email) ==
    /\ Len(email) = 3
    /\ email[1] # "@" /\ email[2] = "@" /\ email[3] # "@"

\* SignUpSerializer.is_valid(): EmailField, UniqueValidator, CharField
EmailFieldErrors(email) ==
    IF IsEmail(email) THEN {} ELSE {"Enter a valid email address."}
UniqueValidatorErrors(email) ==
    IF IsEmail(email) /\ ByEmail(email) # {} THEN {"Email already exists"} ELSE {}
CharFieldErrors(password) ==
    IF password = Blank THEN {"This field may not be blank."} ELSE {}
SignUpErrors(email, password) ==
    EmailFieldErrors(email) \cup UniqueValidatorErrors(email) \cup CharFieldErrors(password)

\* signups that passed is_valid() and have not inserted yet
Pending == BagCardinality([t \in At("create_user") |-> inflight[t]])

SignupValidate(email, password) ==
    /\ Accept
    /\ Resolve("signup") = "signup"
    /\ nextId + Pending <= MaxUsers
    /\ LET request == Request("signup", email, password, Garbage)
           errors == SignUpErrors(email, password)
       IN IF errors = {}
          THEN Begin(Task("create_user", request, NoUser))
          ELSE Reply(Response(request, 400, "", errors, NoTokens))
    /\ UNCHANGED <<users, nextId, now, outbox, issued, signedUp, verified>>

\* SignUpSerializer.create -> CustomUserManager.create_user(email=...): INSERT
SignupCreateUser ==
  \E t \in At("create_user") :
    /\ Ready
    /\ LET o == [id |-> nextId, email |-> normalize_email(t.request.email),
                 password |-> make_password(Blank), is_active |-> FALSE]
       IN IF UniqueViolation(o)
          THEN /\ Finish(t, Raised(t.request, "IntegrityError"))
               /\ UNCHANGED <<users, nextId>>
          ELSE /\ users' = Saved(o)
               /\ nextId' = nextId + 1
               /\ Continue(t, Task("set_password", t.request, o))
    /\ UNCHANGED <<now, outbox, issued, nreq, signedUp, verified>>

\* SignUpSerializer.create: user.set_password(password); user.save()
SignupSetPassword ==
  \E t \in At("set_password") :
    /\ Ready
    /\ LET o == [t.user EXCEPT !.password = make_password(t.request.password)]
       IN IF UniqueViolation(o)
          THEN /\ Finish(t, Raised(t.request, "IntegrityError"))
               /\ UNCHANGED users
          ELSE /\ users' = Saved(o)
               /\ Continue(t, Task("deactivate", t.request, o))
    /\ UNCHANGED <<nextId, now, outbox, issued, nreq, signedUp, verified>>

\* signup: user.is_active = False; user.save()
SignupDeactivate ==
  \E t \in At("deactivate") :
    /\ Ready
    /\ LET o == [t.user EXCEPT !.is_active = FALSE]
       IN IF UniqueViolation(o)
          THEN /\ Finish(t, Raised(t.request, "IntegrityError"))
               /\ UNCHANGED users
          ELSE /\ users' = Saved(o)
               /\ Continue(t, Task("send", t.request, o))
    /\ UNCHANGED <<nextId, now, outbox, issued, nreq, signedUp, verified>>

\* signup: send_verification_email(request, user) succeeds -> 201
SignupSend ==
  \E t \in At("send") :
    /\ Ready
    /\ outbox' = outbox \cup {sign(t.user.id)}
    /\ signedUp' = signedUp \cup {[id |-> t.user.id, email |-> t.request.email,
                                   password |-> t.request.password]}
    /\ Finish(t, Response(t.request, 201, "User created successfully", {}, NoTokens))
    /\ UNCHANGED <<users, nextId, now, issued, nreq, verified>>

\* signup: send_verification_email raises -> except Exception: user.delete(), 400
SignupSendFails ==
  \E t \in At("send"), reason \in DispatchFailures :
    /\ Ready
    /\ users' = Deleted(t.user)
    /\ Finish(t, Response(t.request, 400,
                          <<"failed to send verification email: ", reason>>,
                          {}, NoTokens))
    /\ UNCHANGED <<nextId, now, outbox, issued, nreq, signedUp, verified>>

\* ----------------------------------------------------- views.confirm_email
ValidTokens == outbox
ForgedTokens == {[t EXCEPT !.ts = now] : t \in outbox} \cup {Garbage}

\* confirm_email: signer.unsign, get_object_or_404, the is_active test
ConfirmUnsign ==
  \E token \in ValidTokens \cup ForgedTokens :
    /\ Accept
    /\ Resolve("confirm-email") = "confirm_email"
    /\ LET request == Request("confirm_email", NoEmail, Blank, token)
           verdict == unsign(token, TOKEN_EXPIRY)
       IN CASE verdict = "SignatureExpired" ->
                 Reply(Response(request, 400,
                                "Token has expired. Request a new one.", {}, NoTokens))
            [] verdict = "BadSignature" ->
                 Reply(Response(request, 400, "Invalid token", {}, NoTokens))
            [] verdict = "ok" /\ token.value \notin DOMAIN users ->
                 Reply(Raised(request, "Http404"))
            [] verdict = "ok" /\ token.value \in DOMAIN users ->
                 IF users[token.value].is_active
                 THEN Reply(Response(request, 400, "Email is already verified.",
                                     {}, NoTokens))
                 ELSE Begin(Task("activate", request, Load(token.value)))
    /\ UNCHANGED <<users, nextId, now, outbox, issued, signedUp, verified>>

\* confirm_email: user.is_active = True; user.save(); 200
ConfirmActivate ==
  \E t \in At("activate") :
    /\ Ready
    /\ LET o == [t.user EXCEPT !.is_active = TRUE]
       IN IF UniqueViolation(o)
          THEN /\ Finish(t, Raised(t.request, "IntegrityError"))
               /\ UNCHANGED <<users, verified>>
          ELSE /\ users' = Saved(o)
               /\ verified' = verified \cup {o.id}
               /\ Finish(t, Response(t.request, 200, "Email verified successfully!",
                                     {}, NoTokens))
    /\ UNCHANGED <<nextId, now, outbox, issued, nreq, signedUp>>

\* ------------------------------------------ views.resend_verification_mail
ResendLookup(email) ==
    /\ Accept
    /\ Resolve("resend_verification_mail") = "resend_verification_mail"
    /\ LET request == Request("resend_verification_mail", email, Blank, Garbage)
       IN IF email = NoEmail
          THEN Reply(Response(request, 400, "No email is provided", {}, NoTokens))
          ELSE IF ByEmail(email) = {}
          THEN Reply(Response(request, 404, "User not found", {}, NoTokens))
          ELSE LET user == Load(CHOOSE i \in ByEmail(email) : TRUE)
               IN IF user.is_active
                  THEN Reply(Response(request, 400, "Email is already verified.",
                                      {}, NoTokens))
                  ELSE Begin(Task("resend", request, user))
    /\ UNCHANGED <<users, nextId, now, outbox, issued, signedUp, verified>>

\* resend_verification_mail: send_verification_email succeeds -> 200
ResendSend ==
  \E t \in At("resend") :
    /\ Ready
    /\ outbox' = outbox \cup {sign(t.user.id)}
    /\ Finish(t, Response(t.request, 200, "Verification email sent", {}, NoTokens))
    /\ UNCHANGED <<users, nextId, now, issued, nreq, signedUp, verified>>

\* resend_verification_mail: send_verification_email raises; only
\* User.DoesNotExist is caught, so the exception reaches the exception handler
ResendSendFails ==
  \E t \in At("resend"), reason \in DispatchFailures :
    /\ Ready
    /\ Finish(t, Raised(t.request, "Exception"))
    /\ UNCHANGED <<users, nextId, now, outbox, issued, nreq, signedUp, verified>>

\* ------------------------------------------------------------- views.login
\* a validate that leaves out the is_active test
validate_without_is_active(email, password) ==
    LET found == ByEmail(email)
    IN IF found = {} THEN [ok |-> FALSE, message |-> "Invalid email or password."]
       ELSE LET user == Load(CHOOSE i \in found : TRUE)
            IN IF ~check_password(user, password)
               THEN [ok |-> FALSE, message |-> "Invalid email or password."]
               ELSE [ok |-> TRUE, user |-> user]

\* LoginSerializer.validate
validate(email, password) ==
    LET found == ByEmail(email)
    IN IF found = {} THEN [ok |-> FALSE, message |-> "Invalid email or password."]
       ELSE LET user == Load(CHOOSE i \in found : TRUE)
            IN IF ~check_password(user, password)
               THEN [ok |-> FALSE, message |-> "Invalid email or password."]
               ELSE IF ~user.is_active
               THEN [ok |-> FALSE,
                     message |-> "Email not verified. Please verify your email."]
               ELSE [ok |-> TRUE, user |-> user]

Login(email, password) ==
    /\ Accept
    /\ Resolve("login") = "login"
    /\ LET request == Request("login", email, password, Garbage)
           errors == EmailFieldErrors(email) \cup CharFieldErrors(password)
       IN IF errors # {}
          THEN /\ Reply(Response(request, 400, "", errors, NoTokens))
               /\ UNCHANGED issued
          ELSE LET v == validate(email, password)
               IN IF v.ok
                  THEN /\ Reply(Response(request, 200, "Login successful", {},
                                         get_tokens(v.user)))
                       /\ issued' = issued \cup {get_tokens(v.user).refresh}
                  ELSE /\ Reply(Response(request, 401, v.message, {}, NoTokens))
                       /\ UNCHANGED issued
    /\ UNCHANGED <<users, nextId, now, outbox, signedUp, verified>>

\* ----------------------------------------------------- views.refresh_token
JwtGarbage == [typ |-> "refresh", uid |-> 0, exp |-> 0, sig |-> <<"none">>]
TamperedJwts == {[t EXCEPT !.exp = t.exp + 1] : t \in issued} \cup {JwtGarbage}

\* the view: RefreshTokenSerializer, RefreshToken(token), refresh.access_token
refresh_token(request) ==
    IF request.token = NoToken
    THEN Response(request, 400, "", {"This field is required."}, NoTokens)
    ELSE IF RefreshTokenValid(request.token)
    THEN Response(request, 200, "", {},
                  [access |-> Jwt("access", request.token.uid, now + ACCESS_TOKEN_LIFETIME),
                   refresh |-> NoToken])
    ELSE Response(request, 400, "Invalid refresh token.", {}, NoTokens)

\* POST /refresh_token: the URL resolver decides whether the view runs
RefreshRequest ==
  \E token \in issued \cup TamperedJwts :
    /\ Accept
    /\ LET request == Request("refresh_token", NoEmail, Blank, token)
       IN IF Resolve("refresh_token") = "refresh_token"
          THEN Reply(refresh_token(request))
          ELSE Reply(Response(request, 404, "Not Found", {}, NoTokens))
    /\ UNCHANGED <<users, nextId, now, outbox, issued, signedUp, verified>>

\* the clock; time is counted from the first token
Tick ==
    /\ Ready
    /\ outbox \cup issued # {}
    /\ now < MaxTime
    /\ now' = now + 1
    /\ UNCHANGED <<users, nextId, outbox, issued, inflight, resp, nreq,
                   signedUp, verified>>

Next ==
    \/ \E b \in SignUpBodies : SignupValidate(b[1], b[2])
    \/ SignupCreateUser
    \/ SignupSetPassword
    \/ SignupDeactivate
    \/ SignupSend
    \/ SignupSendFails
    \/ ConfirmUnsign
    \/ ConfirmActivate
    \/ \E e \in Emails \cup {NoEmail} : ResendLookup(e)
    \/ ResendSend
    \/ ResendSendFails
    \/ \E b \in LoginBodies : Login(b[1], b[2])
    \/ RefreshRequest
    \/ Send
    \/ Tick

Spec == Init /\ [][Next]_vars

\* ------------------------------------------------------------------ claims
\* the step sent a response
Answered == resp'.status # 0
\* the step accepted a new request; StartedRequest is that request
Started == nreq' # nreq
StartedRequest ==
    IF Answered THEN resp'.request
    ELSE (CHOOSE t \in BagToSet(inflight') :
              CopiesIn(t, inflight') > CopiesIn(t, inflight)).request
\* task t made the step
Stepped(t) == CopiesIn(t, inflight') < CopiesIn(t, inflight)
Unchanged(i) == i \in DOMAIN users' /\ users'[i] = users[i]
SignedAndExpired(t) ==
    /\ t.sig = Mac("signer", <<t.value, t.ts>>)
    /\ now - t.ts > TOKEN_EXPIRY
SignedAndFresh(t) ==
    /\ t.sig = Mac("signer", <<t.value, t.ts>>)
    /\ now - t.ts <= TOKEN_EXPIRY

\* C1: a login with a well-formed email and a password answers 200 with an
\* access and a refresh token exactly when a user with that email exists, the
\* password matches its stored hash and the user is active; a matching
\* password on an inactive user gives 401 with the verification message, a
\* wrong password or unknown email 401 with the generic message; no user
\* record changes.
C1_LoginContract ==
    [][ (Answered /\ resp'.request.op = "login"
         /\ IsEmail(resp'.request.email) /\ resp'.request.password # Blank)
        => LET e == resp'.request.email
               h == <<"pbkdf2", resp'.request.password>>
               good == {i \in DOMAIN users : users[i].email = e /\ users[i].password = h}
           IN /\ users' = users
              /\ IF \E i \in good : users[i].is_active
                 THEN /\ resp'.status = 200
                      /\ resp'.access.typ = "access" /\ resp'.refresh.typ = "refresh"
                      /\ \E i \in good : resp'.access.uid = i /\ resp'.refresh.uid = i
                 ELSE /\ resp'.status = 401
                      /\ resp'.access = NoToken /\ resp'.refresh = NoToken
                      /\ resp'.message =
                           IF good # {}
                           THEN "Email not verified. Please verify your email."
                           ELSE "Invalid email or password." ]_vars

C1_Witness ==
    /\ resp.request.op = "login" /\ resp.status = 200
    /\ resp.refresh.typ = "refresh"

\* C2: when the verification mail of a signup cannot be dispatched, the
\* request answers 400 with the failure reason, no user record with the
\* email of the request is left, and no other user record changes.
C2_SignupRollback ==
    [][ \A t \in At("send") :
          (Stepped(t) /\ signedUp' = signedUp)
          => /\ resp'.status = 400
             /\ \E r \in DispatchFailures :
                    resp'.message = <<"failed to send verification email: ", r>>
             /\ \A i \in DOMAIN users' :
                    /\ users'[i].email # t.request.email
                    /\ users'[i].email # normalize_email(t.request.email)
             /\ DOMAIN users' = DOMAIN users \ {t.user.id}
             /\ \A i \in DOMAIN users \ {t.user.id} : Unchanged(i) ]_vars

C2_Witness ==
    /\ resp.request.op = "signup" /\ resp.status = 400 /\ resp.errors = {}
    /\ users # << >>
    /\ \A i \in DOMAIN users : users[i].email # normalize_email(resp.request.email)

\* C3: a signup whose insert loses against the unique constraint on email
\* answers like a sequential duplicate: 400 with "Email already exists".
C3_RaceLoserGets400 ==
    [][ \A t \in At("create_user") :
          (Stepped(t) /\ Answered)
          => /\ resp'.status = 400
             /\ "Email already exists" \in resp'.errors ]_vars

\* C4: a resend whose dispatch fails answers 400 and leaves the users alone.
C4_ResendFailureGets400 ==
    [][ \A t \in At("resend") :
          (Stepped(t) /\ resp'.status # 200)
          => /\ resp'.status = 400
             /\ users' = users ]_vars

\* C5: after a signup that answered 201 and a confirm that answered 200 and
\* left the user active, a login with the email and password of the signup
\* answers 200 with an access and a refresh token.
C5_SignupConfirmLogin ==
    [][ (Answered /\ resp'.request.op = "login"
         /\ \E s \in signedUp :
               /\ s.email = resp'.request.email
               /\ s.password = resp'.request.password
               /\ s.id \in verified
               /\ s.id \in DOMAIN users
               /\ users[s.id].is_active
               /\ users[s.id].password = <<"pbkdf2", s.password>>)
        => /\ resp'.status = 200
           /\ resp'.access.typ = "access" /\ resp'.refresh.typ = "refresh" ]_vars

\* C6: once a confirm has answered 200 for a user, every later confirm with a
\* valid unexpired token for that user answers 400 "Email is already
\* verified." and changes no user record.
C6_SecondConfirmAlreadyVerified ==
    [][ (Started /\ StartedRequest.op = "confirm_email"
         /\ SignedAndFresh(StartedRequest.token)
         /\ StartedRequest.token.value \in verified)
        => /\ Answered
           /\ resp'.status = 400
           /\ resp'.message = "Email is already verified."
           /\ users' = users ]_vars

\* C7: a confirm with a correctly signed token older than TOKEN_EXPIRY
\* answers 400 "Token has expired", never "Invalid token", changes no user
\* record and never goes on to the activation, whatever the targeted user.
C7_ExpiredToken ==
    [][ (Started /\ StartedRequest.op = "confirm_email"
         /\ SignedAndExpired(StartedRequest.token))
        => /\ Answered
           /\ resp'.status = 400
           /\ resp'.message = "Token has expired. Request a new one."
           /\ users' = users
           /\ inflight' = inflight ]_vars

C7_Witness ==
    /\ resp.request.op = "confirm_email"
    /\ resp.message = "Token has expired. Request a new one."
    /\ resp.request.token.value \notin DOMAIN users

\* C8: a POST to /refresh_token with a valid refresh token answers 200 with
\* a new access token and no refresh token, with an invalid one 400 "Invalid
\* refresh token." and no access token; no user record changes.
C8_RefreshEndpoint ==
    [][ (Answered /\ resp'.request.op = "refresh_token"
         /\ resp'.request.token # NoToken)
        => /\ users' = users
           /\ resp'.refresh = NoToken
           /\ IF RefreshTokenValid(resp'.request.token)
              THEN resp'.status = 200 /\ resp'.access.typ = "access"
              ELSE /\ resp'.status = 400
                   /\ resp'.message = "Invalid refresh token."
                   /\ resp'.access = NoToken ]_vars

\* C9: a confirm never answers "Email verified successfully!" for a user
\* that another confirm has already activated and that is active.
C9_ActivatedOnce ==
    [][ \A t \in At("activate") :
          (Stepped(t) /\ resp'.status = 200)
          => ~ /\ t.user.id \in verified
               /\ t.user.id \in DOMAIN users
               /\ users[t.user.id].is_active ]_vars

\* C10: an active user stays in the store and stays active.
C10_ActivationStable ==
    [][ \A i \in DOMAIN users :
          users[i].is_active => i \in DOMAIN users' /\ users'[i].is_active ]_vars
====
